---- MODULE Spec2Model ----
(***************************************************************************)
(* Model of cmd.h: the option/positional parsing engine cmd_parse_options  *)
(* and its helpers, as driven by a command handler such as cmd_foo.        *)
(*                                                                         *)
(* A C string is a sequence of one-character strings (its bytes up to, not *)
(* including, the terminating NUL).  A pointer into a string is modelled   *)
(* by the content it points at.  NULL is a value no C string equals.       *)
(***************************************************************************)
EXTENDS Integers, Sequences, FiniteSets, TLC

VARIABLES
    mem,    \* the argument vectors the caller will parse, in order (char *argv[])
    cur,    \* which vector of mem the current / last call was given (0: none yet)
    opts,   \* the caller's CMD_Opt array
    out,    \* cmd_parse_options' CMD_ParseOut
    i,      \* cmd_parse_options' loop index
    pc,     \* "idle" (no call yet), "loop" (inside the for loop), "done" (returned)
    argv0   \* history: the content of the vector when the call was entered

vars == <<mem, cur, opts, out, i, pc, argv0>>

NUL == "NUL"
NULL == <<"NULL">>

CMD_MAX_POSITIONALS == 64

CMD_OPT_FLAG == "CMD_OPT_FLAG"
CMD_OPT_STR == "CMD_OPT_STR"
CMD_OPT_INT == "CMD_OPT_INT"

CMD_PARSE_OK == "CMD_PARSE_OK"
CMD_PARSE_UNKNOWN_OPT == "CMD_PARSE_UNKNOWN_OPT"
CMD_PARSE_MISSING_VAL == "CMD_PARSE_MISSING_VAL"
CMD_PARSE_INVALID_VAL == "CMD_PARSE_INVALID_VAL"

----------------------------------------------------------------------------
(* C string primitives *)

\* s[k] for a C string s and a 0-based offset k <= strlen(s)
CharAt(s, k) == IF k < Len(s) THEN s[k + 1] ELSE NUL

\* the string the pointer s + k points at
Suffix(s, k) == SubSeq(s, k + 1, Len(s))

\* strncmp(arg, "--", 2) == 0
StartsWithDashDash(arg) == CharAt(arg, 0) = "-" /\ CharAt(arg, 1) = "-"

\* strchr(s + from, c): the offset in s of the first c at or after from, -1 for NULL
strchr(s, from, c) ==
    LET hits == {k \in from .. (Len(s) - 1) : s[k + 1] = c}
    IN IF hits = {} THEN -1 ELSE CHOOSE k \in hits : \A h \in hits : k <= h

Digits == {"0", "1", "2", "3", "4", "5", "6", "7", "8", "9"}

DigitVal(c) ==
    CASE c = "0" -> 0 [] c = "1" -> 1 [] c = "2" -> 2 [] c = "3" -> 3
      [] c = "4" -> 4 [] c = "5" -> 5 [] c = "6" -> 6 [] c = "7" -> 7
      [] c = "8" -> 8 [] c = "9" -> 9

RECURSIVE AtoiDigits(_, _, _)
\* the digit loop of atoi: accumulate while s[k] is a digit
AtoiDigits(s, k, acc) ==
    IF CharAt(s, k) \in Digits
    THEN AtoiDigits(s, k + 1, acc * 10 + DigitVal(CharAt(s, k)))
    ELSE acc

RECURSIVE SkipSpace(_, _)
SkipSpace(s, k) == IF CharAt(s, k) = " " THEN SkipSpace(s, k + 1) ELSE k

\* atoi that drops a leading '-' instead of negating
atoi_IgnoresSign(s) ==
    LET b == SkipSpace(s, 0)
        d == IF CharAt(s, b) \in {"-", "+"} THEN b + 1 ELSE b
    IN AtoiDigits(s, d, 0)

\* atoi(s): leading white space, an optional sign, then digits up to the first
\* non-digit (values beyond int are outside the strings the model draws)
atoi(s) ==
    LET b == SkipSpace(s, 0)
        neg == CharAt(s, b) = "-"
        d == IF CharAt(s, b) \in {"-", "+"} THEN b + 1 ELSE b
        v == AtoiDigits(s, d, 0)
    IN IF neg THEN 0 - v ELSE v

----------------------------------------------------------------------------
(* Helper lookups; an option pointer is its 1-based index in opts, 0 is NULL *)

cmd_find_short_opt(sname, os, optc) ==
    LET hits == {k \in 1 .. optc : os[k].sname = sname}
    IN IF hits = {} THEN 0 ELSE CHOOSE k \in hits : \A h \in hits : k <= h

cmd_find_long_opt(lname, os, optc) ==
    LET hits == {k \in 1 .. optc : os[k].lname # NULL /\ os[k].lname = lname}
    IN IF hits = {} THEN 0 ELSE CHOOSE k \in hits : \A h \in hits : k <= h

cmd_is_valid_int(str) ==
    IF str = NULL \/ CharAt(str, 0) = NUL
    THEN 0
    ELSE LET p == IF CharAt(str, 0) \in {"-", "+"} THEN 1 ELSE 0
         IN IF \A k \in p .. (Len(str) - 1) : CharAt(str, k) \in Digits
            THEN 1 ELSE 0

----------------------------------------------------------------------------
(* cmd_parse_options *)

\* CMD_ParseOut out = {0}; out.res = CMD_PARSE_OK;
ZeroOut == [res |-> CMD_PARSE_OK, positionalc |-> 0, positionals |-> <<>>]

\* a reset loop that forgets int_val
ResetOpt_KeepsIntVal(o) == [o EXCEPT !.is_provided = 0, !.str_val = NULL]

\* the "Reset all options" loop
ResetOpt(o) == [o EXCEPT !.is_provided = 0, !.str_val = NULL, !.int_val = 0]

ResetOpts(os) == [k \in 1 .. Len(os) |-> ResetOpt(os[k])]

\* A state of the loop: the vector, the options, the outcome, the index, and
\* whether the function has returned.
LoopState(argv, os, o, k, p) == [argv |-> argv, opts |-> os, out |-> o, i |-> k, pc |-> p]

\* return out with out.res = r
ReturnWith(s, r) == [s EXCEPT !.out.res = r, !.pc = "done"]

\* an assignment that stores an attached value on a flag as its str_val
AssignOpt_FlagTakesValue(s, o, val) ==
    IF o = 0
    THEN [s EXCEPT !.i = @ + 1]
    ELSE LET t == s.opts[o].type
             s1 == [s EXCEPT !.opts[o].is_provided = 1]
         IN CASE t \in {CMD_OPT_FLAG, CMD_OPT_STR} ->
                    [s1 EXCEPT !.opts[o].str_val = val, !.i = @ + 1]
              [] t = CMD_OPT_INT ->
                    IF val = NULL \/ cmd_is_valid_int(val) = 0
                    THEN ReturnWith(s1, CMD_PARSE_INVALID_VAL)
                    ELSE [s1 EXCEPT !.opts[o].int_val = atoi(val), !.i = @ + 1]

\* an assignment that keeps the value of an option already provided
AssignOpt_FirstWins(s, o, val) ==
    IF o = 0 \/ (o # 0 /\ s.opts[o].is_provided = 1)
    THEN [s EXCEPT !.i = @ + 1]
    ELSE LET t == s.opts[o].type
             s1 == [s EXCEPT !.opts[o].is_provided = 1]
         IN CASE t = CMD_OPT_FLAG -> [s1 EXCEPT !.i = @ + 1]
              [] t = CMD_OPT_STR -> [s1 EXCEPT !.opts[o].str_val = val, !.i = @ + 1]
              [] t = CMD_OPT_INT ->
                    IF val = NULL \/ cmd_is_valid_int(val) = 0
                    THEN ReturnWith(s1, CMD_PARSE_INVALID_VAL)
                    ELSE [s1 EXCEPT !.opts[o].int_val = atoi(val), !.i = @ + 1]

\* "Assign option type when parsed", then the loop's i++.  o is the option found
\* (0: none), val the captured value (NULL: none); s.i is the index of the last
\* token consumed.
AssignOpt(s, o, val) ==
    IF o = 0
    THEN [s EXCEPT !.i = @ + 1]
    ELSE LET t == s.opts[o].type
             s1 == [s EXCEPT !.opts[o].is_provided = 1]
         IN CASE t = CMD_OPT_FLAG -> [s1 EXCEPT !.i = @ + 1]
              [] t = CMD_OPT_STR -> [s1 EXCEPT !.opts[o].str_val = val, !.i = @ + 1]
              [] t = CMD_OPT_INT ->
                    IF val = NULL \/ cmd_is_valid_int(val) = 0
                    THEN ReturnWith(s1, CMD_PARSE_INVALID_VAL)
                    ELSE [s1 EXCEPT !.opts[o].int_val = atoi(val), !.i = @ + 1]

\* a lookahead that takes any next token as the value
NextIsValue_IgnoresDash(argv, k) == k + 1 < Len(argv)

\* i + 1 < argc && argv[i + 1][0] != '-'
NextIsValue(argv, k) == k + 1 < Len(argv) /\ CharAt(argv[k + 2], 0) # "-"

\* val = argv[++i]
TakeNext(s) == [s EXCEPT !.i = @ + 1]

\* the "Long option" branch
LongOption(s) ==
    LET arg == s.argv[s.i + 1]
        eq_pos == strchr(arg, 2, "=")
        lname == IF eq_pos >= 0 THEN SubSeq(arg, 3, eq_pos) ELSE Suffix(arg, 2)
        val == IF eq_pos >= 0 THEN Suffix(arg, eq_pos + 1) ELSE NULL
        o == cmd_find_long_opt(lname, s.opts, Len(s.opts))
    IN IF o = 0
       THEN \* returns with *eq_pos still '\0': the token now ends before the '='
            ReturnWith([s EXCEPT !.argv[s.i + 1] =
                            IF eq_pos >= 0 THEN SubSeq(arg, 1, eq_pos) ELSE arg],
                       CMD_PARSE_UNKNOWN_OPT)
       ELSE IF val = NULL /\ s.opts[o].type # CMD_OPT_FLAG
            THEN IF NextIsValue(s.argv, s.i)
                 THEN AssignOpt(TakeNext(s), o, s.argv[s.i + 2])
                 ELSE ReturnWith(s, CMD_PARSE_MISSING_VAL)
            ELSE AssignOpt(s, o, val)

\* the "Short option" branch
ShortOption(s) ==
    LET arg == s.argv[s.i + 1]
        short_opt == CharAt(arg, 1)
        o == cmd_find_short_opt(short_opt, s.opts, Len(s.opts))
    IN IF o = 0
       THEN ReturnWith(s, CMD_PARSE_UNKNOWN_OPT)
       ELSE IF s.opts[o].type # CMD_OPT_FLAG
            THEN IF CharAt(arg, 2) # NUL
                 THEN AssignOpt(s, o, Suffix(arg, 2))
                 ELSE IF NextIsValue(s.argv, s.i)
                      THEN AssignOpt(TakeNext(s), o, s.argv[s.i + 2])
                      ELSE ReturnWith(s, CMD_PARSE_MISSING_VAL)
            ELSE AssignOpt(s, o, NULL)

\* the "Positional argument" branch: out.positionals[out.positionalc++] = arg; continue
Positional(s) ==
    [s EXCEPT !.out.positionals = Append(@, s.argv[s.i + 1]),
              !.out.positionalc = @ + 1,
              !.i = @ + 1]

\* a loop body that takes a bare "-" for a short option
LoopBody_BareDashIsOption(s) ==
    LET arg == s.argv[s.i + 1]
    IN IF StartsWithDashDash(arg)
       THEN LongOption(s)
       ELSE IF CharAt(arg, 0) = "-"
            THEN ShortOption(s)
            ELSE IF s.out.positionalc < CMD_MAX_POSITIONALS
                 THEN Positional(s)
                 ELSE AssignOpt(s, 0, NULL)

\* a loop body whose capacity test is off by one
LoopBody_OffByOneCapacity(s) ==
    LET arg == s.argv[s.i + 1]
    IN IF StartsWithDashDash(arg)
       THEN LongOption(s)
       ELSE IF CharAt(arg, 0) = "-" /\ CharAt(arg, 1) # NUL
            THEN ShortOption(s)
            ELSE IF s.out.positionalc <= CMD_MAX_POSITIONALS
                 THEN Positional(s)
                 ELSE AssignOpt(s, 0, NULL)

\* one iteration of the for loop over argv[i]
LoopBody(s) ==
    LET arg == s.argv[s.i + 1]
    IN IF StartsWithDashDash(arg)
       THEN LongOption(s)
       ELSE IF CharAt(arg, 0) = "-" /\ CharAt(arg, 1) # NUL
            THEN ShortOption(s)
            ELSE IF s.out.positionalc < CMD_MAX_POSITIONALS
                 THEN Positional(s)
                 ELSE AssignOpt(s, 0, NULL)

\* the state on entering the for loop: out zeroed, options reset, i = 2
Enter(argv, os) == LoopState(argv, ResetOpts(os), ZeroOut, 2, "loop")

RECURSIVE RunLoop(_)
\* the for loop run to its return
RunLoop(s) ==
    IF s.pc = "done" THEN s
    ELSE IF s.i < Len(s.argv) THEN RunLoop(LoopBody(s))
    ELSE [s EXCEPT !.pc = "done"]

\* a whole call: the state at its return
cmd_parse_options(argv, os) == RunLoop(Enter(argv, os))

----------------------------------------------------------------------------
(* The caller: schemas and argument vectors *)

Opt(sname, lname, type) ==
    [sname |-> sname, lname |-> lname, type |-> type,
     is_provided |-> 0, int_val |-> 0, str_val |-> NULL]

\* cmd_foo's schema
FooOpts ==
    << Opt("f", <<"f", "l", "a", "g">>, CMD_OPT_FLAG),
       Opt("s", <<"s", "t", "r", "i", "n", "g">>, CMD_OPT_STR),
       Opt("n", <<"n", "u", "m", "b", "e", "r">>, CMD_OPT_INT) >>

\* a schema of zero declarations
NoOpts == << >>

ProgName == <<"p">>
CmdName == <<"f", "o", "o">>

\* argv for a token sequence: program name, command name, then the tokens
Argv(tokens) == <<ProgName, CmdName>> \o tokens

DD == <<"-", "-">>
LFlag == DD \o <<"f", "l", "a", "g">>
LString == DD \o <<"s", "t", "r", "i", "n", "g">>
LNumber == DD \o <<"n", "u", "m", "b", "e", "r">>
LZed == DD \o <<"z", "e", "d">>

RECURSIVE SeqsUpTo(_, _)
\* the sequences over S of length at most n
SeqsUpTo(S, n) ==
    IF n = 0 THEN {<<>>}
    ELSE LET shorter == SeqsUpTo(S, n - 1)
         IN shorter \cup {Append(t, x) : t \in {u \in shorter : Len(u) = n - 1}, x \in S}

\* before the first call: the vectors and the schema as the caller built them
Start(vectors, schemas) ==
    /\ mem \in vectors
    /\ opts \in schemas
    /\ cur = 0
    /\ out = ZeroOut
    /\ i = 0
    /\ pc = "idle"
    /\ argv0 = <<>>

\* the tokens drawn for a single call against cmd_foo's schema
Tokens ==
    { <<>>, <<"a">>, <<"4", "2">>, <<"+", "7">>, <<"+">>, <<"-">>, <<"-", "5">>,
      <<"-", "f">>, <<"-", "s">>, <<"-", "s", "-", "5">>,
      <<"-", "n">>, <<"-", "n", "4", "2">>, <<"-", "n", "=", "4", "2">>,
      DD, LFlag, LFlag \o <<"=", "a">>,
      LString, LString \o <<"=">>, LString \o <<"=", "-", "5">>,
      LNumber, LNumber \o <<"=", "4", "2">>, LNumber \o <<"=", "-", "5">>,
      LNumber \o <<"=", "a">>, LZed \o <<"=", "1">> }

MaxArgs == 3

\* one call of cmd_foo's schema on up to MaxArgs tokens
Init == Start({<<Argv(t)>> : t \in SeqsUpTo(Tokens, MaxArgs)}, {FooOpts})

\* the tokens drawn when one schema is parsed several times
ReuseTokens ==
    { <<"a">>, <<"-", "f">>, <<"-", "s", "-", "5">>, <<"-", "n", "4", "2">>,
      <<"-", "n", "a">>, LZed \o <<"=", "1">> }

ReuseArgs == 1

MaxCalls == 2

\* up to MaxCalls calls on one schema, each with its own vector
InitReuse ==
    Start({m \in SeqsUpTo({Argv(t) : t \in SeqsUpTo(ReuseTokens, ReuseArgs)}, MaxCalls) :
              Len(m) >= 1},
          {FooOpts})

\* the tokens drawn after a run of positionals that fills the positional array
CapTokens ==
    { <<>>, <<"a">>, <<"-">>, <<"-", "5">>, <<"-", "f">>, <<"-", "s">>,
      LFlag, LFlag \o <<"=", "a">> }

MaxTail == 2

\* n positional tokens
Pad(n) == [k \in 1 .. n |-> <<"a">>]

\* one call on a vector of 0, CMD_MAX_POSITIONALS - 1 or CMD_MAX_POSITIONALS
\* positionals followed by up to MaxTail tokens, against either schema
InitCap ==
    Start({<<Argv(Pad(n) \o t)>> :
              n \in {0, CMD_MAX_POSITIONALS - 1, CMD_MAX_POSITIONALS},
              t \in SeqsUpTo(CapTokens, MaxTail)},
          {FooOpts, NoOpts})

\* the caller invokes cmd_parse_options on its next vector; the function zeroes
\* out, resets the options and enters its loop
Call ==
    /\ pc \in {"idle", "done"}
    /\ cur < Len(mem)
    /\ cur' = cur + 1
    /\ LET s == Enter(mem[cur + 1], opts)
       IN /\ opts' = s.opts
          /\ out' = s.out
          /\ i' = s.i
          /\ pc' = s.pc
    /\ argv0' = mem[cur + 1]
    /\ UNCHANGED mem

\* one iteration of the for loop
Iterate ==
    /\ pc = "loop"
    /\ i < Len(mem[cur])
    /\ LET s == LoopBody(LoopState(mem[cur], opts, out, i, pc))
       IN /\ mem' = [mem EXCEPT ![cur] = s.argv]
          /\ opts' = s.opts
          /\ out' = s.out
          /\ i' = s.i
          /\ pc' = s.pc
    /\ UNCHANGED <<cur, argv0>>

\* the loop is exhausted: return out
Return ==
    /\ pc = "loop"
    /\ i >= Len(mem[cur])
    /\ pc' = "done"
    /\ UNCHANGED <<mem, cur, opts, out, i, argv0>>

Next == Call \/ Iterate \/ Return

Spec == Init /\ [][Next]_vars

SpecReuse == InitReuse /\ [][Next]_vars

SpecCap == InitCap /\ [][Next]_vars

----------------------------------------------------------------------------
(* The vocabulary of the properties, stated on the tokens *)

\* the tokens the call was given: the vector at entry, less program and command name
Given == SubSeq(argv0, 3, Len(argv0))

BeginsWithDash(t) == Len(t) >= 1 /\ t[1] = "-"

\* begins with '-' and has at least one more character
OptionLike(t) == Len(t) >= 2 /\ t[1] = "-"

PositionalShaped(t) == ~BeginsWithDash(t) \/ t = <<"-">>

IsPrefix(p, t) == Len(p) <= Len(t) /\ SubSeq(t, 1, Len(p)) = p

Take(s, n) == SubSeq(s, 1, IF Len(s) < n THEN Len(s) ELSE n)

Min(S) == CHOOSE x \in S : \A y \in S : x <= y

Max(S) == CHOOSE x \in S : \A y \in S : x >= y

\* an optional '+' or '-' followed by one or more digits
IsIntLiteral(v) ==
    LET d == IF Len(v) >= 1 /\ v[1] \in {"+", "-"} THEN Tail(v) ELSE v
    IN Len(d) >= 1 /\ \A k \in 1 .. Len(d) : d[k] \in Digits

RECURSIVE Decimal(_)
\* the number a digit string denotes
Decimal(d) ==
    IF d = <<>> THEN 0
    ELSE 10 * Decimal(SubSeq(d, 1, Len(d) - 1)) + DigitVal(d[Len(d)])

\* the number a signed digit string denotes
SignedDecimal(v) ==
    IF Len(v) >= 1 /\ v[1] = "-" THEN 0 - Decimal(Tail(v))
    ELSE IF Len(v) >= 1 /\ v[1] = "+" THEN Decimal(Tail(v))
    ELSE Decimal(v)

\* token t spells declaration o in short form: -x, -xVALUE
ShortForm(t, o) == Len(t) >= 2 /\ t[1] = "-" /\ t[2] # "-" /\ t[2] = o.sname

\* token t spells declaration o in long form: --name, --name=VALUE
LongForm(t, o) ==
    /\ o.lname # NULL
    /\ \/ t = DD \o o.lname
       \/ IsPrefix(DD \o o.lname \o <<"=">>, t)

Names(t, o) == ShortForm(t, o) \/ LongForm(t, o)

\* t, which names o, carries a value of its own
HasAttached(t, o) ==
    IF ShortForm(t, o) THEN Len(t) > 2 ELSE IsPrefix(DD \o o.lname \o <<"=">>, t)

Attached(t, o) ==
    IF ShortForm(t, o) THEN SubSeq(t, 3, Len(t))
    ELSE SubSeq(t, Len(o.lname) + 4, Len(t))

\* t names the non-flag declaration o and carries no value
BareValueOption(t, o) == o.type # CMD_OPT_FLAG /\ Names(t, o) /\ ~HasAttached(t, o)

----------------------------------------------------------------------------
(* C1 *)

\* C1 as stated: with a schema of zero declarations every call returns
\* CMD_PARSE_OK and the positionals are the input tokens in order, up to
\* CMD_MAX_POSITIONALS of them.
C1_EmptySchemaAlwaysOk ==
    (pc = "done" /\ Len(opts) = 0) =>
        /\ out.res = CMD_PARSE_OK
        /\ out.positionals = Take(Given, CMD_MAX_POSITIONALS)

\* C1 amended: with a schema of zero declarations the call returns CMD_PARSE_OK
\* exactly when no token begins with '-' followed by another character, and then
\* the positionals are the input tokens in order, up to CMD_MAX_POSITIONALS of
\* them; otherwise it returns CMD_PARSE_UNKNOWN_OPT at the first such token,
\* with the tokens before it collected.
C1_EmptySchema ==
    (pc = "done" /\ Len(opts) = 0) =>
        LET hits == {k \in 1 .. Len(Given) : OptionLike(Given[k])}
        IN IF hits = {}
           THEN /\ out.res = CMD_PARSE_OK
                /\ out.positionals = Take(Given, CMD_MAX_POSITIONALS)
                /\ out.positionalc = Len(out.positionals)
           ELSE /\ out.res = CMD_PARSE_UNKNOWN_OPT
                /\ out.positionals =
                       Take(SubSeq(Given, 1, Min(hits) - 1), CMD_MAX_POSITIONALS)

\* an empty schema, more tokens than the array holds, a bare "-" among them
C1_Witness ==
    /\ pc = "done"
    /\ Len(opts) = 0
    /\ out.res = CMD_PARSE_OK
    /\ Len(Given) > CMD_MAX_POSITIONALS
    /\ out.positionalc = CMD_MAX_POSITIONALS
    /\ \E k \in 1 .. Len(Given) : Given[k] = <<"-">>

----------------------------------------------------------------------------
(* C2 *)

IntLiterals == { <<"4", "2">>, <<"+", "7">>, <<"-", "5">> }

\* the integer option n / number of cmd_foo's schema was given value x
NumberIs(x) ==
    /\ out.res = CMD_PARSE_OK
    /\ opts[3].is_provided = 1
    /\ opts[3].int_val = x

\* C2 as stated: -n L, -n=L, --number=L and --number L all yield CMD_PARSE_OK
\* with the option provided and int_val the value of the literal L.
C2_FourFormsEquivalent ==
    pc = "done" =>
        \A L \in IntLiterals :
            Given \in { <<<<"-", "n">>, L>>, << <<"-", "n", "=">> \o L >>,
                        << LNumber \o <<"=">> \o L >>, <<LNumber, L>> }
                => NumberIs(SignedDecimal(L))

\* C2 amended: the attached forms -nL and --number=L yield CMD_PARSE_OK with the
\* option provided and int_val the value of L; so do the separate forms -n L and
\* --number L when L does not begin with '-', and they yield
\* CMD_PARSE_MISSING_VAL when it does; -n=L yields CMD_PARSE_INVALID_VAL, its
\* attached value being "=L".
C2_IntForms ==
    pc = "done" =>
        \A L \in IntLiterals :
            /\ Given \in { << <<"-", "n">> \o L >>, << LNumber \o <<"=">> \o L >> }
                   => NumberIs(SignedDecimal(L))
            /\ Given \in { <<<<"-", "n">>, L>>, <<LNumber, L>> }
                   => IF BeginsWithDash(L)
                      THEN out.res = CMD_PARSE_MISSING_VAL
                      ELSE NumberIs(SignedDecimal(L))
            /\ Given = << <<"-", "n", "=">> \o L >>
                   => out.res = CMD_PARSE_INVALID_VAL

\* --number 42 has been parsed
C2_Witness ==
    /\ pc = "done"
    /\ Given = << LNumber, <<"4", "2">> >>
    /\ NumberIs(42)

----------------------------------------------------------------------------
(* C3 *)

\* the value a vector of one option occurrence captures for declaration o:
\* <<v>>, or <<>> when the vector is not of that shape
CapturedAlone(toks, o) ==
    IF Len(toks) = 1 /\ Names(toks[1], o) /\ HasAttached(toks[1], o)
    THEN <<Attached(toks[1], o)>>
    ELSE IF Len(toks) = 2 /\ BareValueOption(toks[1], o) /\ ~BeginsWithDash(toks[2])
         THEN <<toks[2]>>
         ELSE <<>>

\* C3: for the integer option and a captured value v, attached or separate: if v
\* is not an optional sign followed by one or more digits the call returns
\* CMD_PARSE_INVALID_VAL, and if it is, the option is provided and int_val is
\* the decimal value of v.
C3_IntSyntax ==
    pc = "done" =>
        LET c == CapturedAlone(Given, opts[3])
        IN c # <<>> =>
              IF IsIntLiteral(c[1])
              THEN NumberIs(SignedDecimal(c[1]))
              ELSE out.res = CMD_PARSE_INVALID_VAL

----------------------------------------------------------------------------
(* C4 *)

\* C4: when a call has returned, with whatever outcome, every token of the
\* vector has the content it had when the call was entered.
C4_ArgvUntouched == pc = "done" => mem[cur] = argv0

----------------------------------------------------------------------------
(* C5 *)

\* C5: when a call has returned, whatever calls came before it on the same
\* schema, the declarations' result fields and the outcome are those the same
\* call yields on the schema as freshly constructed.
C5_NoLeak ==
    pc = "done" =>
        LET fresh == cmd_parse_options(argv0, FooOpts)
        IN opts = fresh.opts /\ out = fresh.out

\* a second call without -n, after a first call that set int_val to 42
C5_Witness ==
    /\ pc = "done"
    /\ cur = 2
    /\ mem[1] = Argv(<< <<"-", "n", "4", "2">> >>)
    /\ Given = << <<"a">> >>
    /\ opts[3].is_provided = 0
    /\ opts[3].int_val = 0

----------------------------------------------------------------------------
(* C6 *)

\* C6: an iteration on a token that names a non-flag declaration and carries no
\* value returns CMD_PARSE_MISSING_VAL exactly when there is no next token or
\* the next token begins with '-'; otherwise it takes exactly the next token as
\* the value.  A value that begins with '-' is accepted when attached.
C6_SeparateValue ==
    [][ (pc = "loop" /\ i < Len(mem[cur])) =>
          \A k \in 1 .. Len(opts) :
             LET o == opts[k]
                 argv == mem[cur]
                 t == argv[i + 1]
                 noValue == i + 1 >= Len(argv) \/ BeginsWithDash(argv[i + 2])
             IN /\ BareValueOption(t, o) =>
                      /\ (out'.res = CMD_PARSE_MISSING_VAL) <=> noValue
                      /\ noValue => pc' = "done"
                      /\ (~noValue /\ o.type = CMD_OPT_STR) =>
                             /\ opts'[k].str_val = argv[i + 2]
                             /\ opts'[k].is_provided = 1
                             /\ out' = out /\ i' = i + 2 /\ pc' = "loop"
                      /\ (~noValue /\ o.type = CMD_OPT_INT) =>
                             \/ out'.res = CMD_PARSE_INVALID_VAL /\ pc' = "done"
                             \/ /\ opts'[k].is_provided = 1
                                /\ IsIntLiteral(argv[i + 2]) =>
                                       opts'[k].int_val = SignedDecimal(argv[i + 2])
                                /\ out' = out /\ i' = i + 2 /\ pc' = "loop"
                /\ ( /\ o.type # CMD_OPT_FLAG /\ Names(t, o) /\ HasAttached(t, o)
                     /\ BeginsWithDash(Attached(t, o)) ) =>
                      /\ o.type = CMD_OPT_STR =>
                             /\ opts'[k].str_val = Attached(t, o)
                             /\ out' = out /\ i' = i + 1 /\ pc' = "loop"
                      /\ (o.type = CMD_OPT_INT /\ IsIntLiteral(Attached(t, o))) =>
                             /\ opts'[k].int_val = SignedDecimal(Attached(t, o))
                             /\ out' = out /\ i' = i + 1 /\ pc' = "loop"
      ]_vars

\* -s took "a" as its value, then -n found no token left
C6_Witness ==
    /\ pc = "done"
    /\ Given = << <<"-", "s">>, <<"a">>, <<"-", "n">> >>
    /\ opts[2].str_val = <<"a">>
    /\ out.res = CMD_PARSE_MISSING_VAL

----------------------------------------------------------------------------
(* C7 *)

IsFlagToken(t, os) == \E k \in 1 .. Len(os) : os[k].type = CMD_OPT_FLAG /\ Names(t, os[k])

\* An iteration on a flag token marks the flag provided, leaves its values and
\* the outcome alone and moves to the next token; an iteration on a token that
\* follows a flag token and does not begin with '-' appends it to the
\* positionals (when bounded: unless CMD_MAX_POSITIONALS are already held, and
\* then it is dropped).
FlagRule(bounded) ==
    (pc = "loop" /\ i < Len(mem[cur])) =>
        LET argv == mem[cur]
            t == argv[i + 1]
        IN /\ \A k \in 1 .. Len(opts) :
                 (opts[k].type = CMD_OPT_FLAG /\ Names(t, opts[k])) =>
                    /\ opts'[k].is_provided = 1
                    /\ opts'[k].str_val = NULL
                    /\ opts'[k].int_val = 0
                    /\ out' = out /\ i' = i + 1 /\ pc' = "loop"
           /\ (i > 2 /\ IsFlagToken(argv[i], opts) /\ ~BeginsWithDash(t)) =>
                 /\ i' = i + 1 /\ pc' = "loop" /\ opts' = opts
                 /\ IF bounded /\ out.positionalc >= CMD_MAX_POSITIONALS
                    THEN out' = out
                    ELSE /\ out'.positionals = Append(out.positionals, t)
                         /\ out'.res = CMD_PARSE_OK

\* C7 as stated: a flag, short or long, with or without an attached value, is
\* marked provided, keeps default values and never consumes the following
\* token: a following token that does not begin with '-' is appended to the
\* positionals.
C7_FlagNeverConsumes == [][FlagRule(FALSE)]_vars

\* C7 amended: as stated, except that the following token is appended only
\* while fewer than CMD_MAX_POSITIONALS positionals are held; otherwise it is
\* dropped, still without being consumed by the flag.
C7_FlagNeverConsumesBounded == [][FlagRule(TRUE)]_vars

\* --flag=a was followed by "a", which became the positional
C7_Witness ==
    /\ pc = "done"
    /\ Len(opts) = 3
    /\ Given = << LFlag \o <<"=", "a">>, <<"a">> >>
    /\ opts[1].is_provided = 1
    /\ opts[1].str_val = NULL
    /\ out.positionals = << <<"a">> >>

----------------------------------------------------------------------------
(* C8 *)

RECURSIVE RefScan(_, _, _)
\* What the processing rules give for tokens toks from position k on: the error
\* kind of the leftmost offending token (CMD_PARSE_OK when there is none), the
\* number of tokens examined to find it (a token looked at for a missing value
\* included), and whether it rests on the input ending there.
RefScan(toks, k, os) ==
    IF k > Len(toks)
    THEN [res |-> CMD_PARSE_OK, examined |-> Len(toks), atEnd |-> TRUE]
    ELSE LET t == toks[k]
             named == {j \in 1 .. Len(os) : Names(t, os[j])}
             Fail(r, n, e) == [res |-> r, examined |-> n, atEnd |-> e]
         IN IF t = <<"-">> \/ ~BeginsWithDash(t)
            THEN RefScan(toks, k + 1, os)
            ELSE IF named = {}
            THEN Fail(CMD_PARSE_UNKNOWN_OPT, k, FALSE)
            ELSE LET o == os[Min(named)]
                 IN IF o.type = CMD_OPT_FLAG
                    THEN RefScan(toks, k + 1, os)
                    ELSE IF HasAttached(t, o)
                    THEN IF o.type = CMD_OPT_INT /\ ~IsIntLiteral(Attached(t, o))
                         THEN Fail(CMD_PARSE_INVALID_VAL, k, FALSE)
                         ELSE RefScan(toks, k + 1, os)
                    ELSE IF k = Len(toks)
                    THEN Fail(CMD_PARSE_MISSING_VAL, k, TRUE)
                    ELSE IF BeginsWithDash(toks[k + 1])
                    THEN Fail(CMD_PARSE_MISSING_VAL, k + 1, FALSE)
                    ELSE IF o.type = CMD_OPT_INT /\ ~IsIntLiteral(toks[k + 1])
                    THEN Fail(CMD_PARSE_INVALID_VAL, k + 1, FALSE)
                    ELSE RefScan(toks, k + 2, os)

\* what may follow the failure point
FollowingTokens ==
    { << >>, << <<"a">> >>, << <<"-", "f">> >>, << <<"-", "n">>, <<"4", "2">> >>,
      << <<"-", "s">> >>, << LZed >> }

\* C8: the call returns the error kind of the leftmost offending token, and the
\* outcome and the declarations are those of the tokens up to the failure point
\* whatever tokens follow it.
C8_LeftmostErrorWins ==
    pc = "done" =>
        LET ref == RefScan(Given, 1, opts)
        IN /\ out.res = ref.res
           /\ (ref.res # CMD_PARSE_OK /\ ~ref.atEnd) =>
                 \A f \in FollowingTokens :
                    LET r == cmd_parse_options(
                                 Argv(SubSeq(Given, 1, ref.examined) \o f), FooOpts)
                    IN r.out = out /\ r.opts = opts

----------------------------------------------------------------------------
(* C9 *)

\* token p of toks is taken as the separate value of the option before it
ConsumedAsValue(toks, p, os) ==
    /\ p > 1
    /\ ~BeginsWithDash(toks[p])
    /\ \E j \in 1 .. Len(os) : BareValueOption(toks[p - 1], os[j])

RECURSIVE ExpectedPositionals(_, _, _)
\* the tokens among the first n of toks that are positional-shaped and not
\* taken as a value, in order
ExpectedPositionals(toks, n, os) ==
    IF n = 0 THEN <<>>
    ELSE LET before == ExpectedPositionals(toks, n - 1, os)
         IN IF PositionalShaped(toks[n]) /\ ~ConsumedAsValue(toks, n, os)
            THEN Append(before, toks[n])
            ELSE before

\* C9: throughout a call the positionals are, in order, the tokens scanned so
\* far that are not taken as the separate value of a non-flag option and either
\* do not begin with '-' or are the bare "-", cut to CMD_MAX_POSITIONALS;
\* positionalc never exceeds CMD_MAX_POSITIONALS; dropping raises no error, and
\* a flag after a dropped positional is still marked.
C9_Positionals ==
    pc \in {"loop", "done"} =>
        /\ out.positionals =
               Take(ExpectedPositionals(Given, i - 2, opts), CMD_MAX_POSITIONALS)
        /\ out.positionalc = Len(out.positionals)
        /\ out.positionalc <= CMD_MAX_POSITIONALS
        /\ (pc = "done" /\ \A p \in 1 .. Len(Given) : PositionalShaped(Given[p])) =>
               /\ out.res = CMD_PARSE_OK
               /\ i - 2 = Len(Given)
        /\ (pc = "done" /\ out.res = CMD_PARSE_OK) =>
               \A k \in 1 .. Len(opts) :
                  opts[k].type = CMD_OPT_FLAG =>
                     (opts[k].is_provided = 1
                        <=> \E p \in 1 .. Len(Given) : Names(Given[p], opts[k]))

\* the array was full when "a" came, and the -f after it was still parsed
C9_Witness ==
    /\ pc = "done"
    /\ Len(opts) = 3
    /\ Given = Pad(CMD_MAX_POSITIONALS) \o << <<"a">>, <<"-", "f">> >>
    /\ out.res = CMD_PARSE_OK
    /\ out.positionalc = CMD_MAX_POSITIONALS
    /\ opts[1].is_provided = 1

----------------------------------------------------------------------------
(* C10 *)

\* the positions of toks that name declaration o
Occurrences(toks, o) == {p \in 1 .. Len(toks) : Names(toks[p], o)}

\* the value the occurrence of o at position p captures
Captured(toks, p, o) ==
    IF HasAttached(toks[p], o) THEN Attached(toks[p], o) ELSE toks[p + 1]

\* C10: after a successful call, a declaration that occurs several times is
\* provided and holds the value its last occurrence captured.
C10_LastWins ==
    (pc = "done" /\ out.res = CMD_PARSE_OK) =>
        \A k \in 1 .. Len(opts) :
           LET occ == Occurrences(Given, opts[k])
           IN Cardinality(occ) >= 2 =>
                /\ opts[k].is_provided = 1
                /\ opts[k].type = CMD_OPT_STR =>
                       opts[k].str_val = Captured(Given, Max(occ), opts[k])
                /\ opts[k].type = CMD_OPT_INT =>
                       opts[k].int_val =
                           SignedDecimal(Captured(Given, Max(occ), opts[k]))

\* -n 42 was overwritten by --number=-5
C10_Witness ==
    /\ pc = "done"
    /\ out.res = CMD_PARSE_OK
    /\ Given = << <<"-", "n">>, <<"4", "2">>, LNumber \o <<"=", "-", "5">> >>
    /\ opts[3].is_provided = 1
    /\ opts[3].int_val = 0 - 5

====
